---- MODULE Spec2Model ----
(***************************************************************************)
(* Cumulative histogram by map -> reduce -> scan (src/2.1/A/main.cpp).     *)
(* ejecutarParalelo runs the three stages as oneTBB parallel_for,          *)
(* parallel_reduce and parallel_scan; ejecutarSecuencial runs them as      *)
(* plain loops.  Both classify every value with calcularIndiceRango.       *)
(***************************************************************************)
EXTENDS Integers, Sequences, FiniteSets, TLC

\* ------------------------------------------------------------------ bounds
MaxElementos == 3        \* longest input vector explored exhaustively
MaxValor == 4            \* largest input value explored exhaustively
MaxNegativo == 1         \* magnitude of the most negative input value explored
MinValor == 0 - MaxNegativo
MaxRango == 2            \* largest bucket width explored by the pipeline
MaxTareas == 3           \* most sub-ranges a parallel stage holds at once
MaxValorMaximo == 12     \* largest VALOR_MAXIMO explored by the classifier
MaxCuenta == 2           \* largest histogram entry handed to the scan body alone
MaxEntrante == 2         \* largest incoming sum handed to the scan body alone

\* ------------------------------------------------------- program constants
CANTIDAD_RANGOS == 4
VALOR_MAXIMO == 120

Rangos == 0..(CANTIDAD_RANGOS - 1)

\* std::array<int, CANTIDAD_RANGOS>{} : value-initialised, all zero
ArrayCero == [j \in Rangos |-> 0]

Min(a, b) == IF a < b THEN a ELSE b

Abs(a) == IF a < 0 THEN 0 - a ELSE a

\* C++ int division: the quotient is truncated towards zero (b # 0)
DivC(a, b) ==
    IF (a >= 0) = (b > 0) THEN Abs(a) \div Abs(b) ELSE 0 - (Abs(a) \div Abs(b))

\* std::ceil(static_cast<double>(v) / n), n > 0
Techo(v, n) == 0 - ((0 - v) \div n)

\* calcularIndiceRango with the guard on valor > 0 dropped
calcularIndiceRango_SinGuarda(valor, tamanoRango_) ==
    Min(DivC(valor - 1, tamanoRango_), CANTIDAD_RANGOS - 1)

\* calcularIndiceRango with std::max written for std::min
calcularIndiceRango_Max(valor, tamanoRango_) ==
    LET valorAjustado == IF valor > 0 THEN valor - 1 ELSE valor
        cociente == DivC(valorAjustado, tamanoRango_)
    IN  IF cociente > CANTIDAD_RANGOS - 1 THEN cociente ELSE CANTIDAD_RANGOS - 1

\* calcularIndiceRango without the shift of positive values
calcularIndiceRango_SinAjuste(valor, tamanoRango_) ==
    Min(DivC(valor, tamanoRango_), CANTIDAD_RANGOS - 1)

\* calcularIndiceRango(valor, tamanoRango), tamanoRango # 0
calcularIndiceRango(valor, tamanoRango_) ==
    LET valorAjustado == IF valor > 0 THEN valor - 1 ELSE valor
    IN  Min(DivC(valorAjustado, tamanoRango_), CANTIDAD_RANGOS - 1)

\* The call of calcularIndiceRango as the build executes it.  With
\* tamanoRango = 0 the int division is undefined: the process is killed
\* (SIGFPE) or the division yields 0.
LlamarCalcularIndice(valor, tamanoRango_) ==
    IF tamanoRango_ # 0
    THEN {[aborta |-> FALSE, indefinido |-> FALSE,
           indice |-> calcularIndiceRango(valor, tamanoRango_)]}
    ELSE {[aborta |-> TRUE, indefinido |-> TRUE, indice |-> 0],
          [aborta |-> FALSE, indefinido |-> TRUE,
           indice |-> Min(0, CANTIDAD_RANGOS - 1)]}

\* temp{}; temp[indice] = indice written for temp[indice] = 1
EscribirUno_Indice(indice_) ==
    IF indice_ \in Rangos
    THEN {[aborta |-> FALSE, indefinido |-> FALSE,
           temp |-> [ArrayCero EXCEPT ![indice_] = indice_]]}
    ELSE {[aborta |-> FALSE, indefinido |-> TRUE, temp |-> ArrayCero],
          [aborta |-> TRUE, indefinido |-> TRUE, temp |-> ArrayCero]}

\* temp{}; temp[indice] = 1.  An index outside the array is an out-of-bounds
\* write: it lands outside temp (temp stays zero) or the process is killed.
EscribirUno(indice_) ==
    IF indice_ \in Rangos
    THEN {[aborta |-> FALSE, indefinido |-> FALSE,
           temp |-> [ArrayCero EXCEPT ![indice_] = 1]]}
    ELSE {[aborta |-> FALSE, indefinido |-> TRUE, temp |-> ArrayCero],
          [aborta |-> TRUE, indefinido |-> TRUE, temp |-> ArrayCero]}

\* The body of the map loop for one element: classify, then build the one-hot
MapearElemento(valor, tamanoRango_) ==
    UNION {IF c.aborta
           THEN {[aborta |-> TRUE, indefinido |-> TRUE, indice |-> c.indice,
                  temp |-> ArrayCero]}
           ELSE {[aborta |-> e.aborta,
                  indefinido |-> c.indefinido \/ e.indefinido,
                  indice |-> c.indice, temp |-> e.temp] :
                    e \in EscribirUno(c.indice)} :
           c \in LlamarCalcularIndice(valor, tamanoRango_)}

\* limiteInferior / limiteSuperior printed by mostrarConfiguracion for range i
limiteInferior(i, valorMaximo_, tamanoRango_) ==
    IF i = 0 THEN 0
    ELSE valorMaximo_ - (CANTIDAD_RANGOS - i) * tamanoRango_ + 1

limiteSuperior(i, valorMaximo_, tamanoRango_) ==
    valorMaximo_ - (CANTIDAD_RANGOS - 1 - i) * tamanoRango_

\* ------------------------------------------------------------------- state
VARIABLES
    pc,                  \* position of the program
    corrida,             \* which of the two calls of main is running (1, 2)
    backend,             \* backend[c]: the function called by call c
    datos,               \* datos[c]: the vector passed to call c
    tamanoRango,         \* the bucket width passed to both calls
    valoresMapeados,     \* the one-hot vectors (element i at position i + 1)
    histograma,
    histogramaAcumulado,
    i,                   \* loop index of the sequential backend
    acumulador,          \* running sum of the sequential scan
    tareas,              \* sub-ranges of the running parallel stage, in order
    salida,              \* salida[c]: what call c has printed so far
    indefinido,          \* undefined behaviour has been executed
    vecesMapeado,        \* vecesMapeado[k]: assignments to valoresMapeados[k - 1]
    vecesEscrito,        \* vecesEscrito[j]: assignments to histogramaAcumulado[j]
    valorMaximo,         \* classifier harness: VALOR_MAXIMO
    valor,               \* classifier harness: the value classified
    indice               \* classifier harness: the index returned

vars == <<pc, corrida, backend, datos, tamanoRango, valoresMapeados, histograma,
          histogramaAcumulado, i, acumulador, tareas, salida, indefinido,
          vecesMapeado, vecesEscrito, valorMaximo, valor, indice>>

clasificadorVars == <<valorMaximo, valor, indice>>

\* how often each slot of valoresMapeados and of histogramaAcumulado has been
\* assigned by the running call
contadores == <<vecesMapeado, vecesEscrito>>

totalElementos == Len(datos[corrida])

SinSalida == [mapeo |-> <<>>, reduccion |-> <<>>, resultado |-> <<>>]

\* tbb::blocked_range<int>(ini, fin) handed to a parallel algorithm: one
\* sub-range not yet split nor started; nothing runs on an empty range
TareaNueva(ini_, fin_) ==
    [ini |-> ini_, fin |-> fin_, i |-> ini_, fase |-> "nueva",
     parcial |-> ArrayCero, suma |-> 0, previa |-> 0, tienePrevia |-> FALSE]

RangoInicial(ini_, fin_) ==
    IF ini_ < fin_ THEN <<TareaNueva(ini_, fin_)>> ELSE <<>>

Reemplazar(s, k, nuevas) == SubSeq(s, 1, k - 1) \o nuevas \o SubSeq(s, k + 1, Len(s))

\* the combine lambda returning a alone
combinar_SoloIzquierda(a, b) == [j \in Rangos |-> a[j]]

\* element-wise a[j] + b[j] (the combine lambda of parallel_reduce)
combinar(a, b) == [j \in Rangos |-> a[j] + b[j]]

\* the combine of parallel_scan returning x alone
sumar_SoloIzquierda(x, y) == x

\* the combine of parallel_scan
sumar(x, y) == x + y

\* all sequences over S of length at most n
RECURSIVE SecuenciasHasta(_, _)
SecuenciasHasta(S, n) ==
    IF n = 0 THEN {<<>>}
    ELSE LET menores == SecuenciasHasta(S, n - 1)
         IN  menores \cup {Append(s, x) : s \in {m \in menores : Len(m) = n - 1}, x \in S}

\* -------------------------------------------------------------------- main
\* main: ejecutarParalelo(datos, TAMANO_RANGO), then
\* ejecutarSecuencial(datos, TAMANO_RANGO)
LocalesIniciales ==
    /\ corrida = 1
    /\ valoresMapeados = <<>>
    /\ histograma = ArrayCero
    /\ histogramaAcumulado = ArrayCero
    /\ i = 0
    /\ acumulador = 0
    /\ tareas = <<>>
    /\ salida = <<SinSalida, SinSalida>>
    /\ indefinido = FALSE
    /\ vecesMapeado = <<>>
    /\ vecesEscrito = ArrayCero

\* std::sort(datos.begin(), datos.end()) has run before the calls
EsOrdenada(d) == \A k \in 1..(Len(d) - 1) : d[k] <= d[k + 1]

Init ==
    /\ pc = "main"
    /\ backend = <<"paralelo", "secuencial">>
    /\ \E d \in SecuenciasHasta(MinValor..MaxValor, MaxElementos) :
         /\ EsOrdenada(d)
         /\ datos = <<d, d>>
    /\ tamanoRango \in 0..MaxRango
    /\ LocalesIniciales
    /\ valorMaximo = 0 /\ valor = 0 /\ indice = 0

\* entry of ejecutarSecuencial / ejecutarParalelo: valoresMapeados(totalElementos)
Llamar ==
    /\ pc = "main"
    /\ corrida \in 1..2
    /\ valoresMapeados' = [k \in 1..totalElementos |-> ArrayCero]
    /\ IF backend[corrida] = "paralelo"
       THEN /\ pc' = "par_mapeo"
            /\ tareas' = RangoInicial(0, totalElementos)
       ELSE /\ pc' = "sec_mapeo"
            /\ tareas' = <<>>
    /\ i' = 0
    /\ vecesMapeado' = [k \in 1..totalElementos |-> 0]
    /\ vecesEscrito' = ArrayCero
    /\ UNCHANGED <<corrida, backend, datos, tamanoRango, histograma,
                   histogramaAcumulado, acumulador, salida, indefinido,
                   clasificadorVars>>

\* return to main: the locals of the call are destroyed
Retornar ==
    /\ corrida' = corrida + 1
    /\ pc' = IF corrida = 2 THEN "fin" ELSE "main"
    /\ valoresMapeados' = <<>>
    /\ histograma' = ArrayCero
    /\ histogramaAcumulado' = ArrayCero
    /\ i' = 0
    /\ acumulador' = 0
    /\ tareas' = <<>>
    /\ vecesMapeado' = <<>>
    /\ vecesEscrito' = ArrayCero

\* ------------------------------------------------------ ejecutarSecuencial
SecMapeoPaso ==
    /\ pc = "sec_mapeo"
    /\ i < totalElementos
    /\ \E r \in MapearElemento(datos[corrida][i + 1], tamanoRango) :
         /\ indefinido' = (indefinido \/ r.indefinido)
         /\ IF r.aborta
            THEN /\ pc' = "abortado"
                 /\ UNCHANGED <<valoresMapeados, i, vecesMapeado>>
            ELSE /\ valoresMapeados' = [valoresMapeados EXCEPT ![i + 1] = r.temp]
                 /\ vecesMapeado' = [vecesMapeado EXCEPT ![i + 1] = @ + 1]
                 /\ i' = i + 1
                 /\ pc' = pc
    /\ UNCHANGED <<corrida, backend, datos, tamanoRango, histograma,
                   histogramaAcumulado, acumulador, tareas, salida,
                   clasificadorVars, vecesEscrito>>

SecMapeoFin ==
    /\ pc = "sec_mapeo"
    /\ i = totalElementos
    /\ salida' = [salida EXCEPT ![corrida].mapeo = <<valoresMapeados>>]
    /\ histograma' = ArrayCero
    /\ i' = 0
    /\ pc' = "sec_reduccion"
    /\ UNCHANGED <<corrida, backend, datos, tamanoRango, valoresMapeados,
                   histogramaAcumulado, acumulador, tareas, indefinido,
                   clasificadorVars, contadores>>

\* the reduction loop clearing the slot of valoresMapeados it has added
SecReduccionPaso_Consume ==
    /\ pc = "sec_reduccion"
    /\ i < totalElementos
    /\ histograma' = [j \in Rangos |-> histograma[j] + valoresMapeados[i + 1][j]]
    /\ valoresMapeados' = [valoresMapeados EXCEPT ![i + 1] = ArrayCero]
    /\ i' = i + 1
    /\ UNCHANGED <<pc, corrida, backend, datos, tamanoRango,
                   histogramaAcumulado, acumulador, tareas, salida, indefinido,
                   clasificadorVars, contadores>>

\* the reduction loop with histograma[j] = mapeado[j] written for +=
SecReduccionPaso_Asigna ==
    /\ pc = "sec_reduccion"
    /\ i < totalElementos
    /\ histograma' = [j \in Rangos |-> valoresMapeados[i + 1][j]]
    /\ i' = i + 1
    /\ UNCHANGED <<pc, corrida, backend, datos, tamanoRango, valoresMapeados,
                   histogramaAcumulado, acumulador, tareas, salida, indefinido,
                   clasificadorVars, contadores>>

SecReduccionPaso ==
    /\ pc = "sec_reduccion"
    /\ i < totalElementos
    /\ histograma' = [j \in Rangos |-> histograma[j] + valoresMapeados[i + 1][j]]
    /\ i' = i + 1
    /\ UNCHANGED <<pc, corrida, backend, datos, tamanoRango, valoresMapeados,
                   histogramaAcumulado, acumulador, tareas, salida, indefinido,
                   clasificadorVars, contadores>>

SecReduccionFin ==
    /\ pc = "sec_reduccion"
    /\ i = totalElementos
    /\ salida' = [salida EXCEPT ![corrida].reduccion = <<histograma>>]
    /\ histogramaAcumulado' = ArrayCero
    /\ acumulador' = 0
    /\ i' = 0
    /\ pc' = "sec_escaneo"
    /\ UNCHANGED <<corrida, backend, datos, tamanoRango, valoresMapeados,
                   histograma, tareas, indefinido, clasificadorVars, contadores>>

\* the scan loop with acumulador = histograma[i] written for +=
SecEscaneoPaso_SinAcumular ==
    /\ pc = "sec_escaneo"
    /\ i < CANTIDAD_RANGOS
    /\ acumulador' = histograma[i]
    /\ histogramaAcumulado' = [histogramaAcumulado EXCEPT ![i] = acumulador']
    /\ vecesEscrito' = [vecesEscrito EXCEPT ![i] = @ + 1]
    /\ i' = i + 1
    /\ UNCHANGED <<pc, corrida, backend, datos, tamanoRango, valoresMapeados,
                   histograma, tareas, salida, indefinido, clasificadorVars, vecesMapeado>>

SecEscaneoPaso ==
    /\ pc = "sec_escaneo"
    /\ i < CANTIDAD_RANGOS
    /\ acumulador' = acumulador + histograma[i]
    /\ histogramaAcumulado' = [histogramaAcumulado EXCEPT ![i] = acumulador']
    /\ vecesEscrito' = [vecesEscrito EXCEPT ![i] = @ + 1]
    /\ i' = i + 1
    /\ UNCHANGED <<pc, corrida, backend, datos, tamanoRango, valoresMapeados,
                   histograma, tareas, salida, indefinido, clasificadorVars, vecesMapeado>>

SecEscaneoFin ==
    /\ pc = "sec_escaneo"
    /\ i = CANTIDAD_RANGOS
    /\ salida' = [salida EXCEPT ![corrida].resultado = <<histogramaAcumulado>>]
    /\ Retornar
    /\ UNCHANGED <<backend, datos, tamanoRango, indefinido, clasificadorVars>>

\* -------------------------------------------------------- ejecutarParalelo
Nueva(t) == t.fase = "nueva" /\ t.i = t.ini

\* a split whose right part starts one element early, overlapping the left part
ParDividir_Solapa ==
    /\ pc \in {"par_mapeo", "par_reduccion", "par_escaneo"}
    /\ Len(tareas) < MaxTareas
    /\ \E k \in 1..Len(tareas) :
         /\ Nueva(tareas[k])
         /\ tareas[k].fin - tareas[k].ini > 1
         /\ \E m \in (tareas[k].ini + 1)..(tareas[k].fin - 1) :
              tareas' = Reemplazar(tareas, k,
                            <<TareaNueva(tareas[k].ini, m), TareaNueva(m - 1, tareas[k].fin)>>)
    /\ UNCHANGED <<pc, corrida, backend, datos, tamanoRango, valoresMapeados,
                   histograma, histogramaAcumulado, i, acumulador, salida,
                   indefinido, clasificadorVars, contadores>>

\* The scheduler splits a sub-range that no body has started yet
\* (blocked_range with grain size 1: divisible while it holds 2 elements)
ParDividir ==
    /\ pc \in {"par_mapeo", "par_reduccion", "par_escaneo"}
    /\ Len(tareas) < MaxTareas
    /\ \E k \in 1..Len(tareas) :
         /\ Nueva(tareas[k])
         /\ tareas[k].fin - tareas[k].ini > 1
         /\ \E m \in (tareas[k].ini + 1)..(tareas[k].fin - 1) :
              tareas' = Reemplazar(tareas, k,
                            <<TareaNueva(tareas[k].ini, m), TareaNueva(m, tareas[k].fin)>>)
    /\ UNCHANGED <<pc, corrida, backend, datos, tamanoRango, valoresMapeados,
                   histograma, histogramaAcumulado, i, acumulador, salida,
                   indefinido, clasificadorVars, contadores>>

\* one iteration of the parallel_for body on sub-range k
ParMapeoPaso ==
    /\ pc = "par_mapeo"
    /\ \E k \in 1..Len(tareas) :
         LET t == tareas[k] IN
         /\ t.i < t.fin
         /\ \E r \in MapearElemento(datos[corrida][t.i + 1], tamanoRango) :
              /\ indefinido' = (indefinido \/ r.indefinido)
              /\ IF r.aborta
                 THEN /\ pc' = "abortado"
                      /\ UNCHANGED <<valoresMapeados, tareas, vecesMapeado>>
                 ELSE /\ valoresMapeados' = [valoresMapeados EXCEPT ![t.i + 1] = r.temp]
                      /\ vecesMapeado' = [vecesMapeado EXCEPT ![t.i + 1] = @ + 1]
                      /\ tareas' = IF t.i + 1 = t.fin
                                   THEN Reemplazar(tareas, k, <<>>)
                                   ELSE [tareas EXCEPT ![k].i = t.i + 1,
                                                       ![k].fase = "cuerpo"]
                      /\ pc' = pc
    /\ UNCHANGED <<corrida, backend, datos, tamanoRango, histograma,
                   histogramaAcumulado, i, acumulador, salida, clasificadorVars, vecesEscrito>>

\* the reduce stage started without waiting for the map tasks
ParMapeoFin_SinEsperar ==
    /\ pc = "par_mapeo"
    /\ salida' = [salida EXCEPT ![corrida].mapeo = <<valoresMapeados>>]
    /\ tareas' = RangoInicial(0, totalElementos)
    /\ pc' = "par_reduccion"
    /\ UNCHANGED <<corrida, backend, datos, tamanoRango, valoresMapeados,
                   histograma, histogramaAcumulado, i, acumulador, indefinido,
                   clasificadorVars, contadores>>

\* parallel_for returns once every sub-range is done; parallel_reduce starts
ParMapeoFin ==
    /\ pc = "par_mapeo"
    /\ tareas = <<>>
    /\ salida' = [salida EXCEPT ![corrida].mapeo = <<valoresMapeados>>]
    /\ tareas' = RangoInicial(0, totalElementos)
    /\ pc' = "par_reduccion"
    /\ UNCHANGED <<corrida, backend, datos, tamanoRango, valoresMapeados,
                   histograma, histogramaAcumulado, i, acumulador, indefinido,
                   clasificadorVars, contadores>>

\* the partial-reduction lambda with parcial[j] = mapeado[j] written for +=
ParReduccionPaso_Asigna ==
    /\ pc = "par_reduccion"
    /\ \E k \in 1..Len(tareas) :
         LET t == tareas[k] IN
         /\ t.i < t.fin
         /\ tareas' = [tareas EXCEPT
                ![k].parcial = [j \in Rangos |-> valoresMapeados[t.i + 1][j]],
                ![k].i = t.i + 1,
                ![k].fase = IF t.i + 1 = t.fin THEN "hecha" ELSE "cuerpo"]
    /\ UNCHANGED <<pc, corrida, backend, datos, tamanoRango, valoresMapeados,
                   histograma, histogramaAcumulado, i, acumulador, salida,
                   indefinido, clasificadorVars, contadores>>

\* one iteration of the partial-reduction lambda on sub-range k
ParReduccionPaso ==
    /\ pc = "par_reduccion"
    /\ \E k \in 1..Len(tareas) :
         LET t == tareas[k] IN
         /\ t.i < t.fin
         /\ tareas' = [tareas EXCEPT
                ![k].parcial = [j \in Rangos |-> t.parcial[j] + valoresMapeados[t.i + 1][j]],
                ![k].i = t.i + 1,
                ![k].fase = IF t.i + 1 = t.fin THEN "hecha" ELSE "cuerpo"]
    /\ UNCHANGED <<pc, corrida, backend, datos, tamanoRango, valoresMapeados,
                   histograma, histogramaAcumulado, i, acumulador, salida,
                   indefinido, clasificadorVars, contadores>>

\* the partial-reduction lambda starting from a zero array of its own
\* instead of the partial it is handed
ParReduccionSeguir_Reinicia ==
    /\ pc = "par_reduccion"
    /\ \E k \in 1..(Len(tareas) - 1) :
         /\ tareas[k].fase = "hecha"
         /\ Nueva(tareas[k + 1])
         /\ tareas' = SubSeq(tareas, 1, k - 1)
                      \o <<[tareas[k] EXCEPT !.fin = tareas[k + 1].fin,
                                             !.i = tareas[k + 1].ini,
                                             !.parcial = ArrayCero,
                                             !.fase = "cuerpo"]>>
                      \o SubSeq(tareas, k + 2, Len(tareas))
    /\ UNCHANGED <<pc, corrida, backend, datos, tamanoRango, valoresMapeados,
                   histograma, histogramaAcumulado, i, acumulador, salida,
                   indefinido, clasificadorVars, contadores>>

\* the body that finished sub-range k is handed the next sub-range: the lambda
\* is called with the partial it has accumulated so far
ParReduccionSeguir ==
    /\ pc = "par_reduccion"
    /\ \E k \in 1..(Len(tareas) - 1) :
         /\ tareas[k].fase = "hecha"
         /\ Nueva(tareas[k + 1])
         /\ tareas' = SubSeq(tareas, 1, k - 1)
                      \o <<[tareas[k] EXCEPT !.fin = tareas[k + 1].fin,
                                             !.i = tareas[k + 1].ini,
                                             !.fase = "cuerpo"]>>
                      \o SubSeq(tareas, k + 2, Len(tareas))
    /\ UNCHANGED <<pc, corrida, backend, datos, tamanoRango, valoresMapeados,
                   histograma, histogramaAcumulado, i, acumulador, salida,
                   indefinido, clasificadorVars, contadores>>

\* two finished neighbours are joined with the combine lambda
ParReduccionCombinar ==
    /\ pc = "par_reduccion"
    /\ \E k \in 1..(Len(tareas) - 1) :
         /\ tareas[k].fase = "hecha"
         /\ tareas[k + 1].fase = "hecha"
         /\ tareas' = SubSeq(tareas, 1, k - 1)
                      \o <<[tareas[k] EXCEPT
                              !.fin = tareas[k + 1].fin,
                              !.i = tareas[k + 1].fin,
                              !.parcial = combinar(tareas[k].parcial, tareas[k + 1].parcial)]>>
                      \o SubSeq(tareas, k + 2, Len(tareas))
    /\ UNCHANGED <<pc, corrida, backend, datos, tamanoRango, valoresMapeados,
                   histograma, histogramaAcumulado, i, acumulador, salida,
                   indefinido, clasificadorVars, contadores>>

\* parallel_reduce returns the value of the root body (the identity on an
\* empty range); histogramaAcumulado{}; parallel_scan starts
ParReduccionFin ==
    /\ pc = "par_reduccion"
    /\ \/ tareas = <<>>
       \/ Len(tareas) = 1 /\ tareas[1].fase = "hecha"
    /\ histograma' = IF tareas = <<>> THEN ArrayCero ELSE tareas[1].parcial
    /\ salida' = [salida EXCEPT ![corrida].reduccion = <<histograma'>>]
    /\ histogramaAcumulado' = ArrayCero
    /\ tareas' = RangoInicial(0, CANTIDAD_RANGOS)
    /\ pc' = "par_escaneo"
    /\ UNCHANGED <<corrida, backend, datos, tamanoRango, valoresMapeados, i,
                   acumulador, indefinido, clasificadorVars, contadores>>

\* the scan lambda with suma += histograma[i] moved inside if (esFinal)
sumaTras_SoloFinal(suma_, i_, esFinal) ==
    IF esFinal THEN suma_ + histograma[i_] ELSE suma_

\* one iteration of the scan lambda: suma += histograma[i] (whatever esFinal
\* is) ...
sumaTras(suma_, i_, esFinal) == suma_ + histograma[i_]

\* ... then if (esFinal) histogramaAcumulado[i] = suma
escrituraTras(acumulado, i_, suma_, esFinal) ==
    IF esFinal THEN [acumulado EXCEPT ![i_] = suma_] ELSE acumulado

\* The running sum through sub-range k is known once k has finished its final
\* pass, or once k has been pre-scanned and the sum through k - 1 is known.
RECURSIVE SumaConocida(_, _)
SumaConocida(ts, k) ==
    \/ ts[k].fase = "finalHecha"
    \/ ts[k].tienePrevia /\ (IF k = 1 THEN TRUE ELSE SumaConocida(ts, k - 1))

RECURSIVE SumaHasta(_, _)
SumaHasta(ts, k) ==
    IF ts[k].fase = "finalHecha" THEN ts[k].suma
    ELSE sumar(IF k = 1 THEN 0 ELSE SumaHasta(ts, k - 1), ts[k].previa)

\* the leftmost sub-range waiting for a seed like the others
SemillaLista_SinPrimera(ts, k) == k # 1 /\ SumaConocida(ts, k - 1)

\* the sum a final pass on sub-range k is seeded with (the identity 0 for the
\* leftmost one)
SemillaLista(ts, k) == IF k = 1 THEN TRUE ELSE SumaConocida(ts, k - 1)

\* parallel_scan given the identity 1 for 0
Semilla_Uno(ts, k) == IF k = 1 THEN 1 ELSE SumaHasta(ts, k - 1)

Semilla(ts, k) == IF k = 1 THEN 0 ELSE SumaHasta(ts, k - 1)

\* the scan lambda writing histogramaAcumulado[i] without testing esFinal,
\* esFinal = false
ParEscaneoPrevio_Escribe ==
    /\ pc = "par_escaneo"
    /\ \E k \in 2..Len(tareas) :
         LET t == tareas[k]
             suma == t.suma + histograma[t.i]
         IN
         /\ t.fase \in {"nueva", "previa"}
         /\ t.i < t.fin
         /\ histogramaAcumulado' = [histogramaAcumulado EXCEPT ![t.i] = suma]
         /\ vecesEscrito' = [vecesEscrito EXCEPT ![t.i] = @ + 1]
         /\ tareas' = IF t.i + 1 = t.fin
                      THEN [tareas EXCEPT ![k].i = t.ini, ![k].suma = 0,
                                          ![k].previa = suma,
                                          ![k].tienePrevia = TRUE,
                                          ![k].fase = "previaHecha"]
                      ELSE [tareas EXCEPT ![k].i = t.i + 1, ![k].suma = suma,
                                          ![k].fase = "previa"]
    /\ UNCHANGED <<pc, corrida, backend, datos, tamanoRango, valoresMapeados,
                   histograma, i, acumulador, salida, indefinido,
                   clasificadorVars, vecesMapeado>>

\* the scan lambda with suma = histograma[i] written for +=, esFinal = false
ParEscaneoPrevio_SinAcumular ==
    /\ pc = "par_escaneo"
    /\ \E k \in 2..Len(tareas) :
         LET t == tareas[k]
             suma == histograma[t.i]
         IN
         /\ t.fase \in {"nueva", "previa"}
         /\ t.i < t.fin
         /\ tareas' = IF t.i + 1 = t.fin
                      THEN [tareas EXCEPT ![k].i = t.ini, ![k].suma = 0,
                                          ![k].previa = suma,
                                          ![k].tienePrevia = TRUE,
                                          ![k].fase = "previaHecha"]
                      ELSE [tareas EXCEPT ![k].i = t.i + 1, ![k].suma = suma,
                                          ![k].fase = "previa"]
    /\ UNCHANGED <<pc, corrida, backend, datos, tamanoRango, valoresMapeados,
                   histograma, histogramaAcumulado, i, acumulador, salida,
                   indefinido, clasificadorVars, contadores>>

\* one iteration of the scan lambda with esFinal = false on sub-range k; the
\* leftmost sub-range is never pre-scanned: its final pass needs no seed
ParEscaneoPrevio ==
    /\ pc = "par_escaneo"
    /\ \E k \in 2..Len(tareas) :
         LET t == tareas[k]
             suma == sumaTras(t.suma, t.i, FALSE)
         IN
         /\ t.fase \in {"nueva", "previa"}
         /\ t.i < t.fin
         /\ tareas' = IF t.i + 1 = t.fin
                      THEN [tareas EXCEPT ![k].i = t.ini, ![k].suma = 0,
                                          ![k].previa = suma,
                                          ![k].tienePrevia = TRUE,
                                          ![k].fase = "previaHecha"]
                      ELSE [tareas EXCEPT ![k].i = t.i + 1, ![k].suma = suma,
                                          ![k].fase = "previa"]
    /\ UNCHANGED <<pc, corrida, backend, datos, tamanoRango, valoresMapeados,
                   histograma, histogramaAcumulado, i, acumulador, salida,
                   indefinido, clasificadorVars, contadores>>

\* one iteration of the scan lambda with esFinal = true on sub-range k; the
\* pass starts from the running sum of everything to the left of k
ParEscaneoFinal ==
    /\ pc = "par_escaneo"
    /\ \E k \in 1..Len(tareas) :
         LET t == tareas[k]
             entrante == IF t.fase = "final" THEN t.suma ELSE Semilla(tareas, k)
             suma == sumaTras(entrante, t.i, TRUE)
         IN
         /\ \/ t.fase = "final"
            \/ t.fase \in {"nueva", "previaHecha"} /\ SemillaLista(tareas, k)
         /\ t.i < t.fin
         /\ histogramaAcumulado' = escrituraTras(histogramaAcumulado, t.i, suma, TRUE)
         /\ vecesEscrito' = [vecesEscrito EXCEPT ![t.i] = @ + 1]
         /\ tareas' = [tareas EXCEPT ![k].i = t.i + 1, ![k].suma = suma,
                          ![k].fase = IF t.i + 1 = t.fin THEN "finalHecha" ELSE "final"]
    /\ UNCHANGED <<pc, corrida, backend, datos, tamanoRango, valoresMapeados,
                   histograma, i, acumulador, salida, indefinido,
                   clasificadorVars, vecesMapeado>>

\* parallel_scan returns once every sub-range has had its final pass
ParEscaneoFin ==
    /\ pc = "par_escaneo"
    /\ \A k \in 1..Len(tareas) : tareas[k].fase = "finalHecha"
    /\ salida' = [salida EXCEPT ![corrida].resultado = <<histogramaAcumulado>>]
    /\ Retornar
    /\ UNCHANGED <<backend, datos, tamanoRango, indefinido, clasificadorVars>>

Next ==
    \/ Llamar
    \/ ParDividir
    \/ ParMapeoPaso
    \/ ParMapeoFin
    \/ ParReduccionPaso
    \/ ParReduccionSeguir
    \/ ParReduccionCombinar
    \/ ParReduccionFin
    \/ ParEscaneoPrevio
    \/ ParEscaneoFinal
    \/ ParEscaneoFin
    \/ SecMapeoPaso
    \/ SecMapeoFin
    \/ SecReduccionPaso
    \/ SecReduccionFin
    \/ SecEscaneoPaso
    \/ SecEscaneoFin

Spec == Init /\ [][Next]_vars

\* ------------------------------------------------- the reference run of main
\* main with its own constants: VALOR_MAXIMO = 120, TAMANO_RANGO =
\* ceil(120 / 4), and the ten values of scenario S6 as the generated data
EscenarioS6 == <<10, 40, 70, 100, 120, 0, 30, 60, 90, 115>>

InitS6 ==
    /\ pc = "main"
    /\ backend = <<"paralelo", "secuencial">>
    /\ datos = <<EscenarioS6, EscenarioS6>>
    /\ tamanoRango = Techo(VALOR_MAXIMO, CANTIDAD_RANGOS)
    /\ LocalesIniciales
    /\ valorMaximo = VALOR_MAXIMO /\ valor = 0 /\ indice = 0

SpecS6 == InitS6 /\ [][Next]_vars

\* ------------------------------------- one backend on a vector and a permutation
Apariciones(d, v) == Cardinality({k \in 1..Len(d) : d[k] = v})

Permutaciones(d) ==
    LET valores == {d[k] : k \in 1..Len(d)}
    IN  {p \in [1..Len(d) -> valores] : \A v \in valores : Apariciones(p, v) = Apariciones(d, v)}

\* The same backend is called on a sorted vector (main sorts datos before the
\* calls) and then on any permutation of it.
InitPermutacion ==
    /\ pc = "main"
    /\ backend \in {<<"paralelo", "paralelo">>, <<"secuencial", "secuencial">>}
    /\ \E d \in SecuenciasHasta(0..MaxValor, MaxElementos) :
         /\ EsOrdenada(d)
         /\ \E p \in Permutaciones(d) : datos = <<d, p>>
    /\ tamanoRango \in 1..MaxRango
    /\ LocalesIniciales
    /\ valorMaximo = 0 /\ valor = 0 /\ indice = 0

SpecPermutacion == InitPermutacion /\ [][Next]_vars

\* -------------------------------------------------- main under fair scheduling
\* main on a valid configuration: the generated values are non-negative and
\* sorted (std::sort), the width is at least 1.  The calling thread and the
\* workers of the scheduler keep running: while some step of the program is
\* possible, a step is eventually taken.
InitJusto ==
    /\ pc = "main"
    /\ backend = <<"paralelo", "secuencial">>
    /\ \E d \in SecuenciasHasta(0..MaxValor, MaxElementos) :
         /\ EsOrdenada(d)
         /\ datos = <<d, d>>
    /\ tamanoRango \in 1..MaxRango
    /\ LocalesIniciales
    /\ valorMaximo = 0 /\ valor = 0 /\ indice = 0

SpecJusto == InitJusto /\ [][Next]_vars /\ WF_vars(Next)

\* ------------------------------------------------------- classifier harness
\* main's constants VALOR_MAXIMO and TAMANO_RANGO = ceil(VALOR_MAXIMO /
\* CANTIDAD_RANGOS), and one value handed to calcularIndiceRango
InitClasificador ==
    /\ pc = "clasificar"
    /\ backend = <<"paralelo", "secuencial">>
    /\ datos = << <<>>, <<>> >>
    /\ valorMaximo \in (1..MaxValorMaximo) \cup {VALOR_MAXIMO}
    /\ tamanoRango = Techo(valorMaximo, CANTIDAD_RANGOS)
    /\ valor \in MinValor..(valorMaximo + 1)
    /\ indice = 0
    /\ LocalesIniciales

Clasificar ==
    /\ pc = "clasificar"
    /\ \E c \in LlamarCalcularIndice(valor, tamanoRango) :
         /\ indefinido' = c.indefinido
         /\ IF c.aborta
            THEN pc' = "abortado" /\ indice' = indice
            ELSE pc' = "clasificado" /\ indice' = c.indice
    /\ UNCHANGED <<corrida, backend, datos, tamanoRango, valoresMapeados,
                   histograma, histogramaAcumulado, i, acumulador, tareas,
                   salida, valorMaximo, valor, contadores>>

NextClasificador == Clasificar

SpecClasificador == InitClasificador /\ [][NextClasificador]_vars

\* -------------------------------------------------------- scan body harness
\* The lambda handed to parallel_scan, called twice on one sub-range
\* [ini, fin) of a histogram with the same incoming sum (kept in acumulador):
\* tareas[1] is the call with esFinal = false, tareas[2] the call with
\* esFinal = true.  The field suma of a call is its local suma, which the
\* call returns when its loop is over.
InitCuerpo ==
    /\ pc = "cuerpo"
    /\ corrida = 1
    /\ backend = <<"paralelo", "secuencial">>
    /\ datos = << <<>>, <<>> >>
    /\ tamanoRango = 1
    /\ valoresMapeados = <<>>
    /\ histograma \in [Rangos -> 0..MaxCuenta]
    /\ histogramaAcumulado = ArrayCero
    /\ i = 0
    /\ acumulador \in 0..MaxEntrante
    /\ \E ini_ \in Rangos : \E fin_ \in (ini_ + 1)..CANTIDAD_RANGOS :
         tareas = <<[TareaNueva(ini_, fin_) EXCEPT !.suma = acumulador],
                    [TareaNueva(ini_, fin_) EXCEPT !.suma = acumulador]>>
    /\ salida = <<SinSalida, SinSalida>>
    /\ indefinido = FALSE
    /\ vecesMapeado = <<>>
    /\ vecesEscrito = ArrayCero
    /\ valorMaximo = 0 /\ valor = 0 /\ indice = 0

\* one iteration of the loop of call k of the lambda; the call returns suma
\* when i reaches rango.end()
CuerpoEscaneo(k, esFinal) ==
    /\ pc = "cuerpo"
    /\ LET t == tareas[k]
           suma == sumaTras(t.suma, t.i, esFinal)
       IN
       /\ t.i < t.fin
       /\ histogramaAcumulado' = escrituraTras(histogramaAcumulado, t.i, suma, esFinal)
       /\ vecesEscrito' = IF esFinal THEN [vecesEscrito EXCEPT ![t.i] = @ + 1]
                          ELSE vecesEscrito
       /\ tareas' = [tareas EXCEPT ![k].i = t.i + 1, ![k].suma = suma,
                        ![k].fase = IF t.i + 1 = t.fin THEN "retornada" ELSE "cuerpo"]
    /\ UNCHANGED <<pc, corrida, backend, datos, tamanoRango, valoresMapeados,
                   histograma, i, acumulador, salida, indefinido,
                   clasificadorVars, vecesMapeado>>

NextCuerpo ==
    \/ CuerpoEscaneo(1, FALSE)
    \/ CuerpoEscaneo(2, TRUE)

SpecCuerpo == InitCuerpo /\ [][NextCuerpo]_vars

\* ------------------------------------------------------------ observations
\* call c has printed "Resultado: ..."
Terminada(c) == salida[c].resultado # <<>>

\* the cumulative histogram / the histogram printed by call c
Resultado(c) == salida[c].resultado[1]

HistogramaDe(c) == salida[c].reduccion[1]

\* the input of call c is a vector of non-negative values and the width is >= 1
EntradaValida(c) ==
    /\ tamanoRango >= 1
    /\ \A k \in 1..Len(datos[c]) : datos[c][k] >= 0

RECURSIVE SumaDeArray(_, _)
SumaDeArray(a, j) == IF j < 0 THEN 0 ELSE a[j] + SumaDeArray(a, j - 1)

\* element-wise sum of the one-hot vectors of elements ini .. fin - 1
RECURSIVE SumaMapeados(_, _, _)
SumaMapeados(vm, ini, fin) ==
    IF fin <= ini THEN ArrayCero
    ELSE LET resto == SumaMapeados(vm, ini, fin - 1)
         IN  [j \in Rangos |-> resto[j] + vm[fin][j]]

Arreglo(a, b, c, d) == [j \in Rangos |-> <<a, b, c, d>>[j + 1]]

\* ------------------------------------------------------------------ claims

\* C1: on the same valid input (non-negative values, width >= 1), whatever
\* the partition and interleaving of the parallel tasks, the cumulative
\* histogram printed by ejecutarParalelo equals, entry by entry, the one
\* printed by ejecutarSecuencial.
C1_BackendsCoinciden ==
    (/\ pc = "fin"
     /\ backend = <<"paralelo", "secuencial">>
     /\ datos[1] = datos[2]
     /\ EntradaValida(1))
    => Resultado(1) = Resultado(2)

C1_Witness ==
    /\ pc = "fin"
    /\ EntradaValida(1)
    /\ Len(datos[1]) = 3
    /\ Resultado(1) = Arreglo(1, 2, 3, 3)
    /\ Resultado(2) = Arreglo(1, 2, 3, 3)

\* C2: after a run of either backend on N non-negative values, the entries
\* of the histogram sum to N and the last entry of the cumulative histogram
\* is N.
C2_SumaPreservada ==
    \A c \in 1..2 :
        (Terminada(c) /\ EntradaValida(c))
        => /\ SumaDeArray(HistogramaDe(c), CANTIDAD_RANGOS - 1) = Len(datos[c])
           /\ Resultado(c)[CANTIDAD_RANGOS - 1] = Len(datos[c])

C2_Witness ==
    /\ pc = "fin"
    /\ EntradaValida(1)
    /\ Len(datos[1]) = 3
    /\ HistogramaDe(1) = Arreglo(1, 0, 1, 1)
    /\ Resultado(1)[CANTIDAD_RANGOS - 1] = 3
    /\ Resultado(2)[CANTIDAD_RANGOS - 1] = 3

\* C3: with TAMANO_RANGO = ceil(VALOR_MAXIMO / CANTIDAD_RANGOS) and
\* VALOR_MAXIMO >= 1, calcularIndiceRango returns an index in
\* 0 .. CANTIDAD_RANGOS - 1 for every value in [0, VALOR_MAXIMO].
C3_IndiceEnRango ==
    (/\ pc = "clasificado"
     /\ valorMaximo >= 1
     /\ valor \in 0..valorMaximo)
    => indice \in Rangos

C3_Witness ==
    /\ pc = "clasificado"
    /\ valorMaximo = 4
    /\ valor = 0
    /\ indice = 0

\* C4 (as claimed): for every integer value, negative ones included, the
\* index is a valid bucket index, so temp[indice] = 1 in the map stage never
\* writes out of bounds (no undefined behaviour with a non-zero width).
C4_EscrituraEnLimites ==
    tamanoRango # 0 => ~indefinido

\* C5 (as claimed): for every VALOR_MAXIMO >= 1 the classifier returns 0 for
\* the value 0 and CANTIDAD_RANGOS - 1 for the value VALOR_MAXIMO.
C5_ExtremosOriginal ==
    (pc = "clasificado" /\ valorMaximo >= 1)
    => /\ valor = 0 => indice = 0
       /\ valor = valorMaximo => indice = CANTIDAD_RANGOS - 1

\* C5 (amended): the classifier returns 0 for the value 0; it returns
\* CANTIDAD_RANGOS - 1 for the value VALOR_MAXIMO exactly when VALOR_MAXIMO >
\* (CANTIDAD_RANGOS - 1) * TAMANO_RANGO, and a smaller index otherwise.
C5_Extremos ==
    (pc = "clasificado" /\ valorMaximo >= 1)
    => /\ valor = 0 => indice = 0
       /\ valor = valorMaximo =>
            IF valorMaximo > (CANTIDAD_RANGOS - 1) * tamanoRango
            THEN indice = CANTIDAD_RANGOS - 1
            ELSE indice \in 0..(CANTIDAD_RANGOS - 2)

C5_Witness ==
    /\ pc = "clasificado"
    /\ valorMaximo = VALOR_MAXIMO
    /\ valor = valorMaximo
    /\ indice = CANTIDAD_RANGOS - 1

\* C6 (as claimed): for every VALOR_MAXIMO >= 1 and every range k, the
\* classifier returns k for the lower and for the upper bound that
\* mostrarConfiguracion prints for range k.
C6_LimitesOriginal ==
    (pc = "clasificado" /\ valorMaximo >= 1)
    => \A k \in Rangos :
         /\ valor = limiteSuperior(k, valorMaximo, tamanoRango) => indice = k
         /\ valor = limiteInferior(k, valorMaximo, tamanoRango) => indice = k

\* C6 (amended): when CANTIDAD_RANGOS divides VALOR_MAXIMO (VALOR_MAXIMO =
\* CANTIDAD_RANGOS * TAMANO_RANGO), the classifier returns k for the lower
\* and for the upper bound printed for every range k; with width 30, value
\* 30 falls in range 0 and value 31 in range 1.
C6_Limites ==
    (/\ pc = "clasificado"
     /\ valorMaximo >= 1
     /\ valorMaximo = CANTIDAD_RANGOS * tamanoRango)
    => /\ \A k \in Rangos :
            /\ valor = limiteSuperior(k, valorMaximo, tamanoRango) => indice = k
            /\ valor = limiteInferior(k, valorMaximo, tamanoRango) => indice = k
       /\ (tamanoRango = 30 /\ valor = 30) => indice = 0
       /\ (tamanoRango = 30 /\ valor = 31) => indice = 1

C6_Witness ==
    /\ pc = "clasificado"
    /\ valorMaximo = VALOR_MAXIMO
    /\ tamanoRango = 30
    /\ valor = limiteInferior(1, valorMaximo, tamanoRango)
    /\ valor = 31
    /\ indice = 1

\* C7: the same backend run on a vector of non-negative values and on any
\* permutation of it prints the same cumulative histogram.
C7_OrdenIndiferente ==
    (pc = "fin" /\ backend[1] = backend[2])
    => Resultado(1) = Resultado(2)

C7_Witness ==
    /\ pc = "fin"
    /\ backend = <<"secuencial", "secuencial">>
    /\ datos[1] = <<0, 2, 4>>
    /\ datos[2] = <<4, 0, 2>>
    /\ tamanoRango = 1
    /\ Resultado(2) = Arreglo(1, 2, 2, 3)

\* C8: after a run of either backend on non-negative values the cumulative
\* histogram is non-decreasing.
C8_Monotona ==
    \A c \in 1..2 :
        (Terminada(c) /\ EntradaValida(c))
        => \A j \in 1..(CANTIDAD_RANGOS - 1) : Resultado(c)[j] >= Resultado(c)[j - 1]

C8_Witness ==
    /\ pc = "fin"
    /\ EntradaValida(1)
    /\ Resultado(1) = Arreglo(0, 1, 1, 3)
    /\ Resultado(2) = Arreglo(0, 1, 1, 3)

\* C9 (as claimed): with a bucket width of 0 the run fails before any stage
\* executes: no stage body runs (so the division by the width is never
\* executed), and neither a per-phase trace nor a result is printed.
C9_ConfiguracionInvalidaFalla ==
    tamanoRango = 0
    => /\ ~indefinido
       /\ \A c \in 1..2 : salida[c] = SinSalida

\* C10 (as claimed): scenario S6 gives the histogram [3,3,2,2] and the
\* cumulative histogram [3,6,8,10] in both backends.
C10_EscenarioS6Original ==
    \A c \in 1..2 :
        /\ salida[c].reduccion # <<>> => HistogramaDe(c) = Arreglo(3, 3, 2, 2)
        /\ Terminada(c) => Resultado(c) = Arreglo(3, 6, 8, 10)

\* C10 (amended): scenario S6 gives the histogram [3,2,2,3] and the
\* cumulative histogram [3,5,7,10] in both backends.
C10_EscenarioS6 ==
    \A c \in 1..2 :
        /\ salida[c].reduccion # <<>> => HistogramaDe(c) = Arreglo(3, 2, 2, 3)
        /\ Terminada(c) => Resultado(c) = Arreglo(3, 5, 7, 10)

C10_Witness ==
    /\ pc = "fin"
    /\ datos[1] = EscenarioS6
    /\ HistogramaDe(1) = Arreglo(3, 2, 2, 3)
    /\ HistogramaDe(2) = Arreglo(3, 2, 2, 3)
    /\ Resultado(1) = Arreglo(3, 5, 7, 10)
    /\ Resultado(2) = Arreglo(3, 5, 7, 10)

\* C11: on an empty vector (N = 0) a run of either backend succeeds (no
\* abort, no undefined behaviour), and the histogram and the cumulative
\* histogram it prints are both the all-zero vector of length
\* CANTIDAD_RANGOS.
C11_EntradaVacia ==
    \A c \in 1..2 :
        Len(datos[c]) = 0
        => /\ pc # "abortado"
           /\ ~indefinido
           /\ salida[c].reduccion # <<>>
              => /\ DOMAIN HistogramaDe(c) = Rangos
                 /\ HistogramaDe(c) = ArrayCero
           /\ Terminada(c)
              => /\ DOMAIN Resultado(c) = Rangos
                 /\ Resultado(c) = ArrayCero

C11_Witness ==
    /\ pc = "fin"
    /\ Len(datos[1]) = 0
    /\ Len(datos[2]) = 0
    /\ backend = <<"paralelo", "secuencial">>
    /\ HistogramaDe(1) = ArrayCero /\ Resultado(1) = ArrayCero
    /\ HistogramaDe(2) = ArrayCero /\ Resultado(2) = ArrayCero

\* C12: in a run free of undefined behaviour no step of either backend
\* changes the input vector (so after each call returns, datos holds the
\* values it held before the call, in the same order); no step of a reduce
\* or scan stage changes valoresMapeados, and no step of a scan stage changes
\* histograma (the locals are only destroyed when the call returns).
C12_SinEfectos ==
    [][ ~indefinido'
        => /\ datos' = datos
           /\ (/\ pc \in {"sec_reduccion", "par_reduccion", "sec_escaneo", "par_escaneo"}
               /\ corrida' = corrida)
              => valoresMapeados' = valoresMapeados
           /\ (/\ pc \in {"sec_escaneo", "par_escaneo"}
               /\ corrida' = corrida)
              => histograma' = histograma ]_vars

C12_Witness ==
    /\ pc = "fin"
    /\ ~indefinido
    /\ datos = << <<0, 2, 4>>, <<0, 2, 4>> >>
    /\ Terminada(1)
    /\ Terminada(2)

\* C13: however the scheduler splits [0, N) into contiguous sub-ranges,
\* hands further sub-ranges to a body that already holds a partial, and joins
\* finished neighbours, every partial of parallel_reduce is the element-wise
\* sum of the one-hot vectors of the elements it has covered, and the
\* histogram parallel_reduce returns is the element-wise sum of all N one-hot
\* vectors.
C13_ReduccionIndependiente ==
    /\ pc = "par_reduccion"
       => \A k \in 1..Len(tareas) :
              tareas[k].parcial = SumaMapeados(valoresMapeados, tareas[k].ini, tareas[k].i)
    /\ pc = "par_escaneo"
       => /\ histograma = SumaMapeados(valoresMapeados, 0, totalElementos)
          /\ HistogramaDe(corrida) = histograma

\* three sub-ranges of one element each have been reduced and await their joins
C13_Witness ==
    /\ pc = "par_reduccion"
    /\ Len(tareas) = 3
    /\ \A k \in 1..3 : tareas[k].fase = "hecha"
    /\ tareas[1].parcial = Arreglo(1, 0, 0, 0)
    /\ tareas[2].parcial = Arreglo(0, 0, 1, 0)
    /\ tareas[3].parcial = Arreglo(0, 0, 0, 1)

\* C14: however parallel_scan splits [0, CANTIDAD_RANGOS) and orders its
\* pre-scan and final passes, every entry of histogramaAcumulado that has
\* been written holds the sum of histograma[0..j], and the cumulative
\* histogram ejecutarParalelo prints is the inclusive prefix sum of the
\* histogram it printed.
C14_EscaneoCorrecto ==
    /\ pc = "par_escaneo"
       => \A j \in Rangos :
              vecesEscrito[j] > 0 => histogramaAcumulado[j] = SumaDeArray(histograma, j)
    /\ \A c \in 1..2 :
           (Terminada(c) /\ backend[c] = "paralelo")
           => \A j \in Rangos : Resultado(c)[j] = SumaDeArray(HistogramaDe(c), j)

\* the third sub-range has had its final pass, seeded through the pre-scan of
\* the second one, before the second one has had its own
C14_Witness ==
    /\ pc = "par_escaneo"
    /\ Len(tareas) = 3
    /\ tareas[1].fase = "finalHecha"
    /\ tareas[2].fase = "previaHecha"
    /\ tareas[2].fin - tareas[2].ini = 2
    /\ tareas[2].previa = 2
    /\ tareas[3].fase = "finalHecha"
    /\ histograma = Arreglo(1, 1, 1, 0)
    /\ histogramaAcumulado = Arreglo(1, 0, 0, 3)

\* a step of a pre-scan pass (esFinal = false) of parallel_scan
EsPasoPrevio ==
    /\ Len(tareas') = Len(tareas)
    /\ \E k \in 1..Len(tareas) :
         /\ tareas'[k] # tareas[k]
         /\ tareas'[k].fase \in {"previa", "previaHecha"}

\* this step is an iteration of a final pass (esFinal = true) at index j
EsPasoFinalEn(j) ==
    /\ Len(tareas') = Len(tareas)
    /\ \E k \in 1..Len(tareas) :
         /\ tareas[k].ini <= j /\ j < tareas[k].fin
         /\ tareas[k].i = j
         /\ tareas'[k].i = j + 1
         /\ tareas'[k].fase \in {"final", "finalHecha"}

\* this step assigns histogramaAcumulado[j]
Escribe(j) == vecesEscrito'[j] # vecesEscrito[j]

\* C15 (as claimed): during parallel_scan only final passes write
\* histogramaAcumulado, no index is written twice, and the writes happen in
\* increasing index order: when index j is written no larger index has been
\* written yet.
C15_EscriturasOriginal ==
    [][ (pc = "par_escaneo" /\ pc' = "par_escaneo")
        => /\ EsPasoPrevio => (histogramaAcumulado' = histogramaAcumulado /\ contadores' = contadores)
           /\ \A j \in Rangos :
                  /\ histogramaAcumulado'[j] # histogramaAcumulado[j] => Escribe(j)
                  /\ Escribe(j)
                     => /\ EsPasoFinalEn(j)
                        /\ vecesEscrito[j] = 0 /\ vecesEscrito'[j] = 1
                        /\ \A j2 \in Rangos : j2 > j => vecesEscrito[j2] = 0 ]_vars

\* C15 (amended): during parallel_scan only final passes write
\* histogramaAcumulado, each final pass writes the indices of its own
\* sub-range in increasing order (the index written is the cursor of the
\* pass, which then advances by one), and no index is written twice; final
\* passes of different sub-ranges may write in any order.
C15_Escrituras ==
    [][ (pc = "par_escaneo" /\ pc' = "par_escaneo")
        => /\ EsPasoPrevio => (histogramaAcumulado' = histogramaAcumulado /\ contadores' = contadores)
           /\ \A j \in Rangos :
                  /\ histogramaAcumulado'[j] # histogramaAcumulado[j] => Escribe(j)
                  /\ Escribe(j)
                     => /\ EsPasoFinalEn(j)
                        /\ vecesEscrito[j] = 0 /\ vecesEscrito'[j] = 1
                        /\ \A j2 \in Rangos : j2 # j => ~Escribe(j2) ]_vars

\* index 3 has been written by the final pass of the third sub-range while
\* the second sub-range (indices 1 and 2) is only pre-scanned
C15_Witness ==
    /\ pc = "par_escaneo"
    /\ Len(tareas) = 3
    /\ tareas[2].ini = 1 /\ tareas[2].fin = 3
    /\ tareas[2].fase = "previaHecha"
    /\ vecesEscrito = Arreglo(1, 0, 0, 1)

\* C16: however parallel_for splits [0, N) and interleaves its bodies, the
\* sub-ranges of the map tasks are pairwise disjoint, every slot
\* valoresMapeados[i] is assigned at most once (by the task whose sub-range
\* holds i, and only below that task's cursor) and exactly once when
\* parallel_for has returned, the input is not changed, and in a run free of
\* undefined behaviour the array parallel_for leaves is the one the
\* sequential loop produces.
C16_MapeoSinCarreras ==
    /\ pc = "par_mapeo"
       => /\ \A k, l \in 1..Len(tareas) : k < l => tareas[k].fin <= tareas[l].ini
          /\ \A e \in 1..totalElementos : vecesMapeado[e] <= 1
          /\ \A k \in 1..Len(tareas) : \A e \in (tareas[k].ini + 1)..tareas[k].fin :
                 vecesMapeado[e] = (IF e <= tareas[k].i THEN 1 ELSE 0)
          /\ datos[1] = datos[2]
    /\ pc \in {"par_reduccion", "par_escaneo"}
       => \A e \in 1..totalElementos : vecesMapeado[e] = 1
    /\ (/\ pc = "fin"
        /\ ~indefinido
        /\ backend = <<"paralelo", "secuencial">>
        /\ datos[1] = datos[2])
       => salida[1].mapeo = salida[2].mapeo

\* the tasks of elements 0 and 2 have written their slots and finished; the
\* task of element 1 has not started
C16_Witness ==
    /\ pc = "par_mapeo"
    /\ Len(datos[1]) = 3
    /\ Len(tareas) = 1
    /\ tareas[1].ini = 1 /\ tareas[1].fin = 2 /\ tareas[1].i = 1
    /\ vecesMapeado = <<1, 0, 1>>
    /\ valoresMapeados[1] # valoresMapeados[3]

\* this step is an iteration of the partial-reduction lambda reading slot e
\* (element e - 1) of valoresMapeados
LeeMapeado(e) ==
    /\ Len(tareas') = Len(tareas)
    /\ \E k \in 1..Len(tareas) :
         /\ tareas[k].i = e - 1
         /\ tareas'[k].i = e
         /\ tareas'[k].parcial # tareas[k].parcial \/ tareas'[k].fase # tareas[k].fase

\* C17: in ejecutarParalelo the stages follow one another: the stage never
\* goes back; every step of the reduce stage finds every slot of
\* valoresMapeados already written, once, and no slot is written after the
\* reduce stage has begun (so no reduce task reads a slot not yet written);
\* every step of the scan stage finds the reduce finished, its result (the
\* sum of all one-hot vectors) in histograma and printed, and histograma is
\* not assigned again.
C17_OrdenDeEtapas ==
    [][ /\ pc = "par_mapeo" => pc' \in {"par_mapeo", "par_reduccion", "abortado"}
        /\ pc = "par_reduccion"
           => /\ pc' \in {"par_reduccion", "par_escaneo"}
              /\ \A e \in 1..totalElementos :
                     /\ vecesMapeado[e] = 1
                     /\ LeeMapeado(e) => vecesMapeado[e] = 1
              /\ vecesMapeado' = vecesMapeado
              /\ valoresMapeados' = valoresMapeados
        /\ pc = "par_escaneo"
           => /\ pc' \in {"par_escaneo", "main", "fin"}
              /\ salida[corrida].reduccion = <<histograma>>
              /\ histograma = SumaMapeados(valoresMapeados, 0, totalElementos)
              /\ pc' = "par_escaneo"
                 => /\ histograma' = histograma
                    /\ vecesMapeado' = vecesMapeado
                    /\ valoresMapeados' = valoresMapeados ]_vars

\* the scan stage has written its first entry after the map of three
\* elements and their reduction
C17_Witness ==
    /\ pc = "par_escaneo"
    /\ Len(datos[1]) = 3
    /\ vecesMapeado = <<1, 1, 1>>
    /\ HistogramaDe(1) = Arreglo(0, 1, 1, 1)
    /\ histograma = Arreglo(0, 1, 1, 1)
    /\ vecesEscrito = Arreglo(1, 0, 0, 0)

\* the array of one-hot vectors of the vector d under width w
UnoPorElemento(d, w) ==
    [e \in 1..Len(d) |->
        [j \in Rangos |-> IF j = calcularIndiceRango(d[e], w) THEN 1 ELSE 0]]

\* C18: on a valid input (non-negative values, width >= 1), once the map
\* stage of either backend is over, valoresMapeados has exactly N entries
\* and entry i holds 1 at index calcularIndiceRango(datos[i], tamanoRango)
\* and 0 at every other index; this is also the array the stage prints.
C18_UnoPorElemento ==
    /\ \A c \in 1..2 :
           (salida[c].mapeo # <<>> /\ EntradaValida(c))
           => /\ Len(salida[c].mapeo[1]) = Len(datos[c])
              /\ salida[c].mapeo[1] = UnoPorElemento(datos[c], tamanoRango)
    /\ (/\ pc \in {"sec_reduccion", "sec_escaneo", "par_reduccion", "par_escaneo"}
        /\ EntradaValida(corrida))
       => /\ Len(valoresMapeados) = totalElementos
          /\ valoresMapeados = UnoPorElemento(datos[corrida], tamanoRango)
          /\ \A e \in 1..totalElementos :
                 Cardinality({j \in Rangos : valoresMapeados[e][j] = 1}) = 1

C18_Witness ==
    /\ pc = "sec_reduccion"
    /\ datos[2] = <<0, 3, 4>>
    /\ tamanoRango = 1
    /\ salida[1].mapeo = << <<Arreglo(1, 0, 0, 0), Arreglo(0, 0, 1, 0), Arreglo(0, 0, 0, 1)>> >>
    /\ valoresMapeados = <<Arreglo(1, 0, 0, 0), Arreglo(0, 0, 1, 0), Arreglo(0, 0, 0, 1)>>

\* C19: on a valid configuration, under fair scheduling, main runs to
\* completion: ejecutarParalelo finishes its three stages and prints its
\* result, and ejecutarSecuencial terminates and prints its result as well.
C19_Termina ==
    <>(/\ pc = "fin"
       /\ \A c \in 1..2 : salida[c].mapeo # <<>> /\ salida[c].reduccion # <<>> /\ Terminada(c))

C19_Witness ==
    /\ pc = "fin"
    /\ datos[1] = <<0, 2, 4>>
    /\ tamanoRango = 2
    /\ Terminada(1) /\ Resultado(1) = Arreglo(2, 3, 3, 3)
    /\ Terminada(2) /\ Resultado(2) = Arreglo(2, 3, 3, 3)

\* sum of a[ini .. fin - 1]
SumaDeRango(a, ini, fin) == SumaDeArray(a, fin - 1) - SumaDeArray(a, ini - 1)

\* C20: for every sub-range [ini, fin) and every incoming sum, the scan
\* lambda returns the incoming sum plus histograma[ini] + ... +
\* histograma[fin - 1] both when called with esFinal = false and when called
\* with esFinal = true; the call with esFinal = false writes nothing, the
\* call with esFinal = true has written the running sum into the entries of
\* histogramaAcumulado it has passed, and nothing else.
C20_RetornoIgual ==
    pc = "cuerpo"
    => /\ (tareas[1].fase = "retornada" /\ tareas[2].fase = "retornada")
          => tareas[1].suma = tareas[2].suma
       /\ \A k \in 1..2 :
              tareas[k].fase = "retornada"
              => tareas[k].suma = acumulador + SumaDeRango(histograma, tareas[k].ini, tareas[k].fin)
       /\ tareas[2].i = tareas[2].ini => histogramaAcumulado = ArrayCero
       /\ \A j \in Rangos :
              histogramaAcumulado[j] =
                  IF tareas[2].ini <= j /\ j < tareas[2].i
                  THEN acumulador + SumaDeRango(histograma, tareas[2].ini, j + 1)
                  ELSE 0

\* both calls on [1, 4) with incoming sum 2 have returned 2 + 1 + 2 + 0
C20_Witness ==
    /\ pc = "cuerpo"
    /\ acumulador = 2
    /\ histograma = Arreglo(2, 1, 2, 0)
    /\ tareas[1].ini = 1 /\ tareas[1].fin = 4
    /\ tareas[1].fase = "retornada" /\ tareas[1].suma = 5
    /\ tareas[2].fase = "retornada" /\ tareas[2].suma = 5
    /\ histogramaAcumulado = Arreglo(0, 3, 5, 5)

====
